---- MODULE Spec2Model ----
(***************************************************************************)
(* fast_c2pa_python: the Python-facing read API (read_c2pa_from_bytes,     *)
(* read_c2pa_from_file, get_mime_type) and the grayscale preservation      *)
(* workflow (convert_to_gray_keep_c2pa).                                   *)
(*                                                                         *)
(* Strings are sequences of one-character strings, Option<T> is a set with *)
(* at most one element, and the c2pa / image / mimetypes libraries are     *)
(* modelled by the results they hand back to this repository's code.       *)
(***************************************************************************)
EXTENDS Naturals, Sequences, FiniteSets, TLC

\* ------------------------------------------------------------------ bounds

\* Python threads calling the read API at the same time.
NumThreads == 2
\* Largest size (in bytes) of a payload the grayscale transform may write.
MaxPayload == 2

Threads == 1..NumThreads
\* The one caller of the sequential specification.
SeqThreads == {1}

\* ----------------------------------------------------------------- strings

None == {}
Some(x) == {x}
Unwrap(o) == CHOOSE x \in o : TRUE

IMAGE_JPEG == <<"i","m","a","g","e","/","j","p","e","g">>
IMAGE_PJPEG == <<"i","m","a","g","e","/","p","j","p","e","g">>
IMAGE_PNG == <<"i","m","a","g","e","/","p","n","g">>
IMAGE_GIF == <<"i","m","a","g","e","/","g","i","f">>
IMAGE_WEBP == <<"i","m","a","g","e","/","w","e","b","p">>
IMAGE_TIFF == <<"i","m","a","g","e","/","t","i","f","f">>
IMAGE_HEIC == <<"i","m","a","g","e","/","h","e","i","c">>
TEXT_PLAIN == <<"t","e","x","t","/","p","l","a","i","n">>

UpperChars == <<"A","B","C","D","E","F","G","H","I","J","K","L","M",
                "N","O","P","Q","R","S","T","U","V","W","X","Y","Z">>
LowerChars == <<"a","b","c","d","e","f","g","h","i","j","k","l","m",
                "n","o","p","q","r","s","t","u","v","w","x","y","z">>

\* str::to_lowercase
ToLowerChar(c) ==
    IF \E i \in DOMAIN UpperChars : UpperChars[i] = c
    THEN LowerChars[CHOOSE i \in DOMAIN UpperChars : UpperChars[i] = c]
    ELSE c
ToLower(s) == [i \in DOMAIN s |-> ToLowerChar(s[i])]

IsWhitespace(c) == c \in {" ", "\t", "\n"}

\* str::trim: leading and trailing whitespace removed
RECURSIVE TrimStart(_)
TrimStart(s) ==
    IF s = <<>> THEN <<>>
    ELSE IF IsWhitespace(Head(s)) THEN TrimStart(Tail(s)) ELSE s
RECURSIVE TrimEnd(_)
TrimEnd(s) ==
    IF s = <<>> THEN <<>>
    ELSE IF IsWhitespace(s[Len(s)]) THEN TrimEnd(SubSeq(s, 1, Len(s) - 1)) ELSE s
Trim(s) == TrimEnd(TrimStart(s))

\* Index of the last occurrence of c in s, 0 when there is none (str.rfind + 1).
LastIndexOf(s, c) ==
    IF \E i \in DOMAIN s : s[i] = c
    THEN CHOOSE i \in DOMAIN s : s[i] = c /\ \A j \in DOMAIN s : s[j] = c => j <= i
    ELSE 0

\* os.path.splitext(p)[1]: the text from the last dot of the last path
\* component, empty when that component has no dot or only leading dots.
SplitExt(p) ==
    LET sep == LastIndexOf(p, "/")
        dot == LastIndexOf(p, ".")
    IN  IF dot > sep /\ \E k \in (sep + 1)..(dot - 1) : p[k] # "."
        THEN SubSeq(p, dot, Len(p))
        ELSE <<>>

\* ------------------------------------------------------ media byte buffers

\* A buffer is described by what the c2pa library finds in it:
\*   container: "none" (well-formed media, no JUMBF), "truncated" (a JUMBF
\*              segment whose length fields are inconsistent), "present";
\*   jumbf:     the raw container bytes;
\*   store:     "ok" or "bad" (the box tree does not decode to a manifest store);
\*   active:    the label the active-manifest pointer resolves to, None if unresolved;
\*   json:      whether serde_json can serialize the active manifest;
\*   payload:   the media payload (pixel data) bytes.
Buf(c, j, s, a, js, p) ==
    [container |-> c, jumbf |-> j, store |-> s, active |-> a, json |-> js, payload |-> p]

PlainJpeg == Buf("none", <<>>, "ok", None, "ok", <<7>>)
TruncatedJpeg == Buf("truncated", <<9>>, "ok", None, "ok", <<7>>)
BadStoreJpeg == Buf("present", <<1, 0>>, "bad", None, "ok", <<7>>)
NoActiveJpeg == Buf("present", <<1, 1>>, "ok", None, "ok", <<7>>)
UnserializableJpeg == Buf("present", <<1, 2>>, "ok", Some("m3"), "fail", <<7>>)
SignedJpeg == Buf("present", <<1, 3>>, "ok", Some("m1"), "ok", <<7>>)
EditedJpeg == Buf("present", <<1, 4, 4>>, "ok", Some("m2"), "ok", <<7, 7>>)

Buffers == {PlainJpeg, TruncatedJpeg, BadStoreJpeg, NoActiveJpeg,
            UnserializableJpeg, SignedJpeg, EditedJpeg}

\* Formats the c2pa library has a handler for (among those used here).
SupportedFormats == {IMAGE_JPEG, IMAGE_PNG, IMAGE_GIF, IMAGE_WEBP, IMAGE_TIFF, IMAGE_HEIC}

\* Result<T, E>
Ok(v) == [ok |-> TRUE, val |-> Some(v), err |-> ""]
Err(e) == [ok |-> FALSE, val |-> None, err |-> e]

\* c2pa::jumbf_io::load_jumbf_from_stream(mime_type, &mut cursor)
LoadJumbf(mime, b) ==
    IF mime \notin SupportedFormats THEN Err("UnsupportedType")
    ELSE IF b.container = "none" THEN Err("JumbfNotFound")
    ELSE IF b.container # "present" THEN Err("InvalidAsset")
    ELSE Ok(b.jumbf)

\* c2pa::Reader::from_stream(mime_type, cursor): the decoded manifest store
ReaderFromStream(mime, b) ==
    IF mime \notin SupportedFormats THEN Err("UnsupportedType")
    ELSE IF b.container = "none" THEN Err("JumbfNotFound")
    ELSE IF b.container # "present" THEN Err("InvalidAsset")
    ELSE IF b.store # "ok" THEN Err("ClaimDecoding")
    ELSE Ok(b)

\* Reader::active_manifest(): Option<&Manifest>, a manifest is named by its label
ActiveManifest(reader) == reader.active

\* The complete JSON object of a manifest, as a set of (field, value) pairs.
ManifestJson(label) ==
    {<<"label", label>>, <<"claim_generator", "gen">>, <<"assertions", "c2pa.actions">>}
\* The object of the JSON text "{}".
EmptyJson == {}

\* serde_json::to_string(&manifest)
SerdeToString(reader, label) ==
    IF reader.json = "ok" THEN Ok(ManifestJson(label)) ELSE Err("serde")

\* PyResult<Option<PyObject>>
PyNone == [tag |-> "None", map |-> {}, err |-> ""]
PySome(m) == [tag |-> "Some", map |-> m, err |-> ""]
PyErr(e) == [tag |-> "Err", map |-> {}, err |-> e]
Pending == [tag |-> "pending", map |-> {}, err |-> ""]

\* ------------------------------------------------------- MIME resolution

\* The system's mimetypes database: a set of (extension, type) pairs.
EmptyDb == {}
StdDb == {<<<<".","j","p","g">>, IMAGE_JPEG>>, <<<<".","j","p","e","g">>, IMAGE_JPEG>>,
          <<<<".","p","n","g">>, IMAGE_PNG>>, <<<<".","t","i","f">>, IMAGE_TIFF>>}
RegistryDb == {<<<<".","j","p","g">>, IMAGE_PJPEG>>}
MimeDbs == {EmptyDb, StdDb, RegistryDb}

DbLookup(db, ext) ==
    IF \E e \in db : e[1] = ext THEN Some((CHOOSE e \in db : e[1] = ext)[2]) ELSE None

\* mimetypes.guess_type(file_path)[0]: the extension as written, then lowercased
GuessType(db, path) ==
    LET ext == SplitExt(path)
    IN  IF DbLookup(db, ext) # None THEN DbLookup(db, ext) ELSE DbLookup(db, ToLower(ext))

\* The match on the lowercased extension: fallbacks for common image types.
FallbackMime(ext) ==
    CASE ext \in {<<".","j","p","g">>, <<".","j","p","e","g">>} -> Some(IMAGE_JPEG)
      [] ext = <<".","p","n","g">> -> Some(IMAGE_PNG)
      [] ext = <<".","g","i","f">> -> Some(IMAGE_GIF)
      [] ext = <<".","w","e","b","p">> -> Some(IMAGE_WEBP)
      [] ext = <<".","t","i","f","f">> -> Some(IMAGE_TIFF)
      [] ext = <<".","h","e","i","c">> -> Some(IMAGE_HEIC)
      [] OTHER -> None

\* The extension matched as written, without to_lowercase.
FallbackExtCaseSensitive(path) == SplitExt(path)

\* The extension handed to the fallback match.
FallbackExt(path) == ToLower(SplitExt(path))

\* get_mime_type, after the mimetypes module is initialised
GetMimeType(db, path) ==
    LET mime_type == GuessType(db, path)
    IN  IF mime_type = None /\ FallbackMime(FallbackExt(path)) # None
        THEN FallbackMime(FallbackExt(path))
        ELSE mime_type

\* The check of mimetypes.inited without its negation.
NeedsInitInverted(ini) == ini

\* `if !mimetypes.getattr("inited")`: whether get_mime_type calls mimetypes.init()
NeedsInit(ini) == ~ini

\* `Some(mime) if !mime.trim().is_empty()`: the caller's MIME type is used
MimeGiven(mime_type) == mime_type # None /\ Trim(Unwrap(mime_type)) # <<>>

\* The effective MIME type when the caller's is used.
GivenMime(mime_type) == Unwrap(mime_type)

\* ------------------------------------------------------------ input sets

P_jpg == <<"a",".","j","p","g">>
P_JPG == <<"a",".","J","P","G">>
P_jpeg == <<"a",".","j","p","e","g">>
P_png == <<"a",".","p","n","g">>
P_gif == <<"a",".","G","i","f">>
P_webp == <<"a",".","w","e","b","p">>
P_tiff == <<"a",".","t","i","f","f">>
P_tif == <<"a",".","t","i","f">>
P_heic == <<"a",".","h","e","i","c">>
P_noext == <<"a">>
P_hidden == <<".","j","p","g">>
P_dotdir == <<"d",".","p","n","g","/","a">>

Paths == {P_jpg, P_JPG, P_jpeg, P_png, P_gif, P_webp, P_tiff, P_tif, P_heic,
          P_noext, P_hidden, P_dotdir}

\* mime_type arguments of read_c2pa_from_file
FileMimeArgs == {None, Some(<<>>), Some(<<" ">>), Some(<<"\t", " ">>),
                 Some(IMAGE_JPEG), Some(<<" ">> \o IMAGE_JPEG), Some(TEXT_PLAIN)}
\* mime_type arguments of read_c2pa_from_bytes
BytesMimeArgs == {IMAGE_JPEG, IMAGE_PNG, TEXT_PLAIN}
\* verify_trust: Option<bool>
VerifyTrustArgs == {None, Some(TRUE), Some(FALSE)}

\* The file systems: every path holds the same buffer, or no path exists.
NoFile == None
FileSystems == {[p \in Paths |-> c] : c \in {Some(b) : b \in Buffers} \cup {NoFile}}

\* The smaller input sets of the concurrent specification.
ConcPaths == {P_JPG, P_noext}
ConcFileMimeArgs == {None, Some(IMAGE_JPEG)}
ConcBuffers == {PlainJpeg, SignedJpeg}
ConcMimeDbs == {EmptyDb, RegistryDb}
ConcFileSystems == {[p \in Paths |-> Some(SignedJpeg)], [p \in Paths |-> Some(BadStoreJpeg)]}

\* ------------------------------------------------------------------ state

VARIABLES
    pc,             \* per thread: where its call stands
    call,           \* per thread: the arguments of its call
    eff_mime,       \* per thread: effective_mime_type / mime_type, Option
    buf,            \* per thread: the data the call works on, Option
    reader,         \* per thread: the Result of Reader::from_stream, Option
    steps,          \* per thread: the library steps the call has performed
    outcome,        \* per thread: what the call returns
    gil,            \* the thread holding the interpreter lock, 0 if none
    inited,         \* mimetypes.inited
    sys_modules,    \* the interpreter's import cache: the modules imported so far
    mime_db,        \* the system's mimetypes database
    fs,             \* the file system: path -> Option<buffer>
    verify_setting, \* the process-wide c2pa setting verify.verify_trust
    gpc,            \* convert_to_gray_keep_c2pa: where the call stands
    gargs,          \* its arguments
    disk,           \* the files it works on: path -> Option<file>
    jumbf,          \* the extracted container bytes, Option
    image,          \* the bytes re-read from output_path, Option
    handed,         \* what was handed to save_jumbf_to_stream, Option
    gresult,        \* what the call returns
    disk0,          \* the files as they were when the call was made
    saved           \* the file the transform saved, Option

readVars == <<pc, call, eff_mime, buf, reader, steps, outcome, gil, inited,
              sys_modules, mime_db, fs, verify_setting>>
grayVars == <<gpc, gargs, disk, jumbf, image, handed, gresult, disk0, saved>>
vars == <<pc, call, eff_mime, buf, reader, steps, outcome, gil, inited,
          sys_modules, mime_db, fs, verify_setting, gpc, gargs, disk, jumbf, image, handed, gresult,
          disk0, saved>>

NoCall == [api |-> "none", data |-> None, mime |-> None, path |-> <<>>,
           allow_threads |-> FALSE, verify_trust |-> None]

BytesCall(data, mime_type, allow_threads, verify_trust) ==
    [api |-> "bytes", data |-> Some(data), mime |-> Some(mime_type), path |-> <<>>,
     allow_threads |-> allow_threads, verify_trust |-> verify_trust]

FileCall(file_path, mime_type, allow_threads) ==
    [api |-> "file", data |-> None, mime |-> mime_type, path |-> file_path,
     allow_threads |-> allow_threads, verify_trust |-> None]

\* --------------------------------------------------------------- read API

Set(f, t, v) == [f EXCEPT ![t] = v]

\* A call returns `result`: its thread keeps the interpreter lock until Return.
Finish(t, result) ==
    /\ outcome' = Set(outcome, t, result)
    /\ pc' = Set(pc, t, "done")

\* A probe that lets every buffer through to the parser.
HasJumbfAlways(mime, b) == TRUE

\* `let has_jumbf = load_jumbf_from_stream(mime_type, &mut cursor).is_ok()`
HasJumbf(mime, b) == LoadJumbf(mime, b).ok

\* The outcome of the `match reader` that ends read_c2pa_from_bytes.
Projected(r) ==
    IF r.ok
    THEN LET rd == Unwrap(r.val)
             manifest == ActiveManifest(rd)
         IN  IF manifest # None
             THEN LET json_str == SerdeToString(rd, Unwrap(manifest))
                  IN  PySome(IF json_str.ok THEN Unwrap(json_str.val) ELSE EmptyJson)
             ELSE PyNone
    ELSE PyErr("Error reading C2PA data")

\* The library steps Reader::from_stream performs: signature verification is
\* governed by the process-wide c2pa settings, the only thing it is handed
\* being the MIME type and the cursor.
ParseSteps(r, c) ==
    IF r.ok /\ verify_setting THEN <<"parse", "verify_signature">> ELSE <<"parse">>

\* read_c2pa_from_bytes as a function of its data and MIME type.
ReadBytes(data, mime_type) ==
    IF ~HasJumbf(mime_type, data) THEN PyNone
    ELSE Projected(ReaderFromStream(mime_type, data))

\* read_c2pa_from_file as a function of its path and MIME type, the
\* mimetypes database and the file system.
ReadFile(file_path, mime_type) ==
    LET effective_mime_type ==
            IF MimeGiven(mime_type) THEN Some(GivenMime(mime_type))
            ELSE GetMimeType(mime_db, file_path)
    IN  IF effective_mime_type = None
        THEN PyErr("Could not determine MIME type for file")
        ELSE IF fs[file_path] = NoFile THEN PyErr("Error reading file")
        ELSE ReadBytes(Unwrap(fs[file_path]), Unwrap(effective_mime_type))

\* read_c2pa_from_bytes(data, mime_type, allow_threads, verify_trust) is called.
CallBytes(t, data, mime_type, allow_threads, verify_trust) ==
    /\ pc[t] = "idle" /\ gil = 0
    /\ gil' = t
    /\ call' = Set(call, t, BytesCall(data, mime_type, allow_threads, verify_trust))
    /\ buf' = Set(buf, t, Some(data))
    /\ eff_mime' = Set(eff_mime, t, Some(mime_type))
    /\ pc' = Set(pc, t, "probe")
    /\ UNCHANGED <<reader, steps, outcome, inited, mime_db, fs, verify_setting, sys_modules>>
    /\ UNCHANGED grayVars

\* read_c2pa_from_file(file_path, mime_type, allow_threads) is called: the
\* caller's MIME type is used, or get_mime_type is entered.
CallFile(t, file_path, mime_type, allow_threads) ==
    /\ pc[t] = "idle" /\ gil = 0
    /\ gil' = t
    /\ call' = Set(call, t, FileCall(file_path, mime_type, allow_threads))
    /\ IF MimeGiven(mime_type)
       THEN /\ eff_mime' = Set(eff_mime, t, Some(GivenMime(mime_type)))
            /\ pc' = Set(pc, t, "fs_read")
       ELSE /\ eff_mime' = eff_mime
            /\ pc' = Set(pc, t, "mime_check")
    /\ UNCHANGED <<buf, reader, steps, outcome, inited, mime_db, fs, verify_setting, sys_modules>>
    /\ UNCHANGED grayVars

\* get_mime_type reads mimetypes.inited; mimetypes.init() is Python code,
\* during which the interpreter may switch threads.
MimeCheck(t) ==
    /\ pc[t] = "mime_check" /\ gil = t
    /\ IF NeedsInit(inited)
       THEN /\ pc' = Set(pc, t, "mime_init")
            /\ gil' = 0
       ELSE /\ pc' = Set(pc, t, "mime_guess")
            /\ gil' = gil
    /\ UNCHANGED <<call, eff_mime, buf, reader, steps, outcome, inited, mime_db, fs,
                   verify_setting>>
    /\ sys_modules' = sys_modules \cup {"mimetypes"}
    /\ UNCHANGED grayVars

\* mimetypes.init() completes: the module is marked initialised.
MimeInit(t) ==
    /\ pc[t] = "mime_init" /\ gil = 0
    /\ gil' = t
    /\ inited' = TRUE
    /\ pc' = Set(pc, t, "mime_guess")
    /\ UNCHANGED <<call, eff_mime, buf, reader, steps, outcome, mime_db, fs, verify_setting, sys_modules>>
    /\ UNCHANGED grayVars

\* guess_type and the fallback match; no MIME type is an error.
MimeGuess(t) ==
    /\ pc[t] = "mime_guess" /\ gil = t
    /\ LET mime == GetMimeType(mime_db, call[t].path)
       IN  IF mime = None
           THEN /\ Finish(t, PyErr("Could not determine MIME type for file"))
                /\ eff_mime' = eff_mime
           ELSE /\ eff_mime' = Set(eff_mime, t, mime)
                /\ pc' = Set(pc, t, "fs_read")
                /\ outcome' = outcome
    /\ steps' = Set(steps, t, Append(steps[t], "guess_type"))
    /\ UNCHANGED <<call, buf, reader, gil, inited, mime_db, fs, verify_setting>>
    /\ sys_modules' = IF GuessType(mime_db, call[t].path) = None
                      THEN sys_modules \cup {"os.path"} ELSE sys_modules
    /\ UNCHANGED grayVars

\* std::fs::read(file_path)
FsRead(t) ==
    /\ pc[t] = "fs_read" /\ gil = t
    /\ IF fs[call[t].path] = NoFile
       THEN /\ Finish(t, PyErr("Error reading file"))
            /\ buf' = buf
       ELSE /\ buf' = Set(buf, t, fs[call[t].path])
            /\ pc' = Set(pc, t, "probe")
            /\ outcome' = outcome
    /\ steps' = Set(steps, t, Append(steps[t], "fs_read"))
    /\ UNCHANGED <<call, eff_mime, reader, gil, inited, mime_db, fs, verify_setting, sys_modules>>
    /\ UNCHANGED grayVars

\* The presence probe; without a container the call returns None. With one,
\* and allow_threads, the interpreter lock is released for the parse.
Probe(t) ==
    /\ pc[t] = "probe" /\ gil = t
    /\ steps' = Set(steps, t, Append(steps[t], "probe"))
    /\ IF ~HasJumbf(Unwrap(eff_mime[t]), Unwrap(buf[t]))
       THEN /\ Finish(t, PyNone)
            /\ gil' = gil
       ELSE /\ pc' = Set(pc, t, "parse")
            /\ gil' = IF call[t].allow_threads THEN 0 ELSE gil
            /\ outcome' = outcome
    /\ UNCHANGED <<call, eff_mime, buf, reader, inited, mime_db, fs, verify_setting, sys_modules>>
    /\ UNCHANGED grayVars

\* Reader::from_stream(mime_type, cursor), inside py.allow_threads or not.
Parse(t) ==
    /\ pc[t] = "parse"
    /\ call[t].allow_threads \/ gil = t
    /\ LET r == ReaderFromStream(Unwrap(eff_mime[t]), Unwrap(buf[t]))
       IN  /\ reader' = Set(reader, t, Some(r))
           /\ steps' = Set(steps, t, steps[t] \o ParseSteps(r, call[t]))
    /\ pc' = Set(pc, t, IF call[t].allow_threads THEN "reacquire" ELSE "project")
    /\ UNCHANGED <<call, eff_mime, buf, outcome, gil, inited, mime_db, fs, verify_setting, sys_modules>>
    /\ UNCHANGED grayVars

\* py.allow_threads returns: the interpreter lock is taken again.
Reacquire(t) ==
    /\ pc[t] = "reacquire" /\ gil = 0
    /\ gil' = t
    /\ pc' = Set(pc, t, "project")
    /\ UNCHANGED <<call, eff_mime, buf, reader, steps, outcome, inited, mime_db, fs,
                   verify_setting, sys_modules>>
    /\ UNCHANGED grayVars

\* `match reader`: the active manifest as a Python object, None, or an error.
Project(t) ==
    /\ pc[t] = "project" /\ gil = t
    /\ Finish(t, Projected(Unwrap(reader[t])))
    /\ steps' = Set(steps, t,
                    IF Unwrap(reader[t]).ok
                    THEN IF ActiveManifest(Unwrap(Unwrap(reader[t]).val)) # None
                         THEN steps[t] \o <<"active_manifest", "to_string", "json_loads">>
                         ELSE Append(steps[t], "active_manifest")
                    ELSE steps[t])
    /\ UNCHANGED <<call, eff_mime, buf, reader, gil, inited, mime_db, fs, verify_setting>>
    /\ sys_modules' = IF Projected(Unwrap(reader[t])).tag = "Some"
                      THEN sys_modules \cup {"json"} ELSE sys_modules
    /\ UNCHANGED grayVars

\* The call has returned; the caller drops the result and the thread runs on.
Return(t) ==
    /\ pc[t] = "done" /\ gil = t
    /\ gil' = 0
    /\ pc' = Set(pc, t, "idle")
    /\ call' = Set(call, t, NoCall)
    /\ eff_mime' = Set(eff_mime, t, None)
    /\ buf' = Set(buf, t, None)
    /\ reader' = Set(reader, t, None)
    /\ steps' = Set(steps, t, <<>>)
    /\ outcome' = Set(outcome, t, Pending)
    /\ UNCHANGED <<inited, mime_db, fs, verify_setting, sys_modules>>
    /\ UNCHANGED grayVars

\* ------------------------------------------------ convert_to_gray_keep_c2pa

\* A file on disk: its container, the raw container bytes and the payload.
\* container "invalid" is a file that is no complete instance of its format
\* (just created and still empty, or written in part).
GFile(c, j, p) == [container |-> c, jumbf |-> j, payload |-> p]
AsFile(b) == GFile(b.container, b.jumbf, b.payload)
EmptyFile == GFile("invalid", <<>>, <<>>)
PartialFile == GFile("invalid", <<>>, <<5>>)
OldOutput == GFile("none", <<>>, <<8>>)
IsValidFile(f) == f.container \in {"none", "present"}

GPaths == {"in.jpg", "out.jpg"}
GFormats == {IMAGE_JPEG, TEXT_PLAIN}
InputFiles == {Some(AsFile(b)) : b \in {PlainJpeg, TruncatedJpeg, SignedJpeg, EditedJpeg}}
                  \cup {NoFile}
OutputFiles == {NoFile, Some(OldOutput), Some(AsFile(SignedJpeg))}

\* The payload the grayscale transform encodes: n gray bytes.
Grayscale(n) == [i \in 1..n |-> 5]
\* The file output_img.save(output_path) writes.
SavedFile(n) == GFile("none", <<>>, Grayscale(n))

\* PyResult<()>
GOk == [ok |-> TRUE, err |-> ""]
GErr(e) == [ok |-> FALSE, err |-> e]
GPending == [ok |-> FALSE, err |-> "pending"]
NoArgs == [input_path |-> "", output_path |-> "", format |-> <<>>]

GFinish(result) ==
    /\ gresult' = result
    /\ gpc' = "done"

\* The output file created before the extraction.
DiskCreatedFirst(d, output_path) == [d EXCEPT ![output_path] = Some(EmptyFile)]

\* The files after File::open or load_jumbf_from_stream failed.
DiskAfterFailedExtract(d, output_path) == d

\* The container re-read from the transformed file instead of the extracted one.
EmbedJumbfFromImage(j, img) == img.jumbf

\* The container bytes handed to save_jumbf_to_stream: `&jumbf`.
EmbedJumbf(j, img) == j

\* The payload handed to save_jumbf_to_stream: `&mut Cursor::new(image)`.
EmbedPayload(img) == img.payload

\* A return that drops the error of save_jumbf_to_stream.
EmbedReturnIgnoringError(r_ok) == GOk

\* What the call returns after save_jumbf_to_stream: `.map_err(..)?; Ok(())`.
EmbedReturn(r_ok) == IF r_ok THEN GOk ELSE GErr("Failed to save output with jumbf")

\* convert_to_gray_keep_c2pa(input_path, output_path, format) is called.
GCall(input_path, output_path, format) ==
    /\ gpc = "idle"
    /\ gpc' = "open"
    /\ gargs' = [input_path |-> input_path, output_path |-> output_path, format |-> format]
    /\ disk0' = disk
    /\ UNCHANGED <<disk, jumbf, image, handed, gresult, saved>>
    /\ UNCHANGED readVars

\* 1. std::fs::File::open(input_path)
GOpen ==
    /\ gpc = "open"
    /\ IF disk[gargs.input_path] = NoFile
       THEN /\ GFinish(GErr("Failed to open file"))
            /\ disk' = DiskAfterFailedExtract(disk, gargs.output_path)
       ELSE /\ gpc' = "extract"
            /\ UNCHANGED <<gresult, disk>>
    /\ UNCHANGED <<gargs, jumbf, image, handed, disk0, saved>>
    /\ UNCHANGED readVars

\* 1. load_jumbf_from_stream(format, &mut source)
GExtract ==
    /\ gpc = "extract"
    /\ LET r == LoadJumbf(gargs.format, Unwrap(disk[gargs.input_path]))
       IN  IF r.ok
           THEN /\ jumbf' = r.val
                /\ gpc' = "transform"
                /\ UNCHANGED <<gresult, disk>>
           ELSE /\ GFinish(GErr("Failed to load JUMBF"))
                /\ disk' = DiskAfterFailedExtract(disk, gargs.output_path)
                /\ jumbf' = jumbf
    /\ UNCHANGED <<gargs, image, handed, disk0, saved>>
    /\ UNCHANGED readVars

\* 2. image::open(input_path), grayscale(), output_img.save(output_path).
\* A failed save leaves output_path as it was or written in part.
GTransform(open_ok, save_ok, partial, n) ==
    /\ gpc = "transform"
    /\ IF ~open_ok
       THEN /\ GFinish(GErr("Failed to open input path"))
            /\ UNCHANGED <<disk, saved>>
       ELSE IF ~save_ok
       THEN /\ GFinish(GErr("Failed to save output file"))
            /\ disk' = IF partial
                       THEN [disk EXCEPT ![gargs.output_path] = Some(PartialFile)]
                       ELSE disk
            /\ saved' = saved
       ELSE /\ disk' = [disk EXCEPT ![gargs.output_path] = Some(SavedFile(n))]
            /\ saved' = Some(SavedFile(n))
            /\ gpc' = "reread"
            /\ gresult' = gresult
    /\ UNCHANGED <<gargs, jumbf, image, handed, disk0>>
    /\ UNCHANGED readVars

\* 3. std::fs::read(output_path)?
GReread(io_ok) ==
    /\ gpc = "reread"
    /\ IF io_ok
       THEN /\ image' = disk[gargs.output_path]
            /\ gpc' = "create"
            /\ gresult' = gresult
       ELSE /\ GFinish(GErr("io"))
            /\ image' = image
    /\ UNCHANGED <<gargs, disk, jumbf, handed, disk0, saved>>
    /\ UNCHANGED readVars

\* 3. std::fs::File::create(output_path)?: the file is truncated
GCreate(io_ok) ==
    /\ gpc = "create"
    /\ IF io_ok
       THEN /\ disk' = [disk EXCEPT ![gargs.output_path] = Some(EmptyFile)]
            /\ gpc' = "embed"
            /\ gresult' = gresult
       ELSE /\ GFinish(GErr("io"))
            /\ disk' = disk
    /\ UNCHANGED <<gargs, jumbf, image, handed, disk0, saved>>
    /\ UNCHANGED readVars

\* 3. save_jumbf_to_stream(format, &mut Cursor::new(image), &mut dest, &jumbf)
GEmbed(r_ok, partial) ==
    /\ gpc = "embed"
    /\ LET j == EmbedJumbf(Unwrap(jumbf), Unwrap(image))
           p == EmbedPayload(Unwrap(image))
       IN  /\ handed' = Some([jumbf |-> j, payload |-> p])
           /\ disk' = [disk EXCEPT ![gargs.output_path] =
                          IF r_ok THEN Some(GFile("present", j, p))
                          ELSE IF partial THEN Some(PartialFile) ELSE Some(EmptyFile)]
    /\ GFinish(EmbedReturn(r_ok))
    /\ UNCHANGED <<gargs, jumbf, image, disk0, saved>>
    /\ UNCHANGED readVars

\* The call has returned; the files stay as it left them.
GReturn ==
    /\ gpc = "done"
    /\ gpc' = "idle"
    /\ gargs' = NoArgs
    /\ jumbf' = None
    /\ image' = None
    /\ handed' = None
    /\ saved' = None
    /\ gresult' = GPending
    /\ disk0' = disk
    /\ UNCHANGED disk
    /\ UNCHANGED readVars

\* ------------------------------------------------------- specifications

ReadInit ==
    /\ pc = [t \in Threads |-> "idle"]
    /\ call = [t \in Threads |-> NoCall]
    /\ eff_mime = [t \in Threads |-> None]
    /\ buf = [t \in Threads |-> None]
    /\ reader = [t \in Threads |-> None]
    /\ steps = [t \in Threads |-> <<>>]
    /\ outcome = [t \in Threads |-> Pending]
    /\ gil = 0
    /\ inited = FALSE
    /\ sys_modules = {}

GrayInit ==
    /\ gpc = "idle"
    /\ gargs = NoArgs
    /\ jumbf = None
    /\ image = None
    /\ handed = None
    /\ saved = None
    /\ gresult = GPending
    /\ disk0 = disk

\* One caller, every input.
Init ==
    /\ ReadInit
    /\ mime_db \in MimeDbs
    /\ fs \in FileSystems
    /\ verify_setting \in BOOLEAN
    /\ disk = [p \in GPaths |-> NoFile]
    /\ GrayInit

Step(t) ==
    \/ MimeCheck(t)
    \/ MimeInit(t)
    \/ MimeGuess(t)
    \/ FsRead(t)
    \/ Probe(t)
    \/ Parse(t)
    \/ Reacquire(t)
    \/ Project(t)
    \/ Return(t)

Next ==
    \E t \in SeqThreads :
        \/ \E data \in Buffers, mime_type \in BytesMimeArgs, allow_threads \in BOOLEAN,
              verify_trust \in VerifyTrustArgs :
                CallBytes(t, data, mime_type, allow_threads, verify_trust)
        \/ \E file_path \in Paths, mime_type \in FileMimeArgs, allow_threads \in BOOLEAN :
                CallFile(t, file_path, mime_type, allow_threads)
        \/ Step(t)

Spec == Init /\ [][Next]_vars

\* Several threads calling at once, over the smaller input sets.
InitThreads ==
    /\ ReadInit
    /\ mime_db \in ConcMimeDbs
    /\ fs \in ConcFileSystems
    /\ verify_setting = TRUE
    /\ disk = [p \in GPaths |-> NoFile]
    /\ GrayInit

NextThreads ==
    \E t \in Threads :
        \/ \E data \in ConcBuffers, allow_threads \in BOOLEAN :
                CallBytes(t, data, IMAGE_JPEG, allow_threads, None)
        \/ \E file_path \in ConcPaths, mime_type \in ConcFileMimeArgs,
              allow_threads \in BOOLEAN :
                CallFile(t, file_path, mime_type, allow_threads)
        \/ Step(t)

SpecThreads == InitThreads /\ [][NextThreads]_vars

\* The preservation workflow, one call at a time over the files it leaves.
InitGray ==
    /\ ReadInit
    /\ mime_db = EmptyDb
    /\ fs = [p \in Paths |-> NoFile]
    /\ verify_setting = FALSE
    /\ \E i \in InputFiles, o \in OutputFiles :
           disk = [p \in GPaths |-> IF p = "in.jpg" THEN i ELSE o]
    /\ GrayInit

NextGray ==
    \/ \E input_path \in GPaths, output_path \in GPaths, format \in GFormats :
           GCall(input_path, output_path, format)
    \/ GOpen
    \/ GExtract
    \/ \E open_ok \in BOOLEAN, save_ok \in BOOLEAN, partial \in BOOLEAN, n \in 1..MaxPayload :
           GTransform(open_ok, save_ok, partial, n)
    \/ \E io_ok \in BOOLEAN : GReread(io_ok)
    \/ \E io_ok \in BOOLEAN : GCreate(io_ok)
    \/ \E r_ok \in BOOLEAN, partial \in BOOLEAN : GEmbed(r_ok, partial)
    \/ GReturn

SpecGray == InitGray /\ [][NextGray]_vars

\* ------------------------------------------------------------- properties

\* The call of thread t has returned.
Done(t) == pc[t] = "done"
\* Step `a` occurs in the call of thread t, and before step `b` if that occurs.
Did(t, a) == \E i \in DOMAIN steps[t] : steps[t][i] = a
Precedes(t, a, b) ==
    \A j \in DOMAIN steps[t] : steps[t][j] = b => \E i \in 1..(j - 1) : steps[t][i] = a
\* The result of probing the data the call of thread t works on.
ProbeResult(t) == LoadJumbf(Unwrap(eff_mime[t]), Unwrap(buf[t]))

\* C1: a call whose presence probe reports no container returns None without
\* raising and never invokes the manifest parser; every parse step comes
\* after a probe of the same data that found a container.
C1_AbsenceShortCircuits ==
    \A t \in Threads :
        /\ (Done(t) /\ Did(t, "probe") /\ ~ProbeResult(t).ok)
              => (outcome[t] = PyNone /\ ~Did(t, "parse"))
        /\ Did(t, "parse") => (Precedes(t, "probe", "parse") /\ ProbeResult(t).ok)

C1_Witness ==
    \E t \in Threads :
        /\ Done(t) /\ call[t].api = "bytes"
        /\ call[t].data = Some(PlainJpeg) /\ call[t].mime = Some(IMAGE_JPEG)
        /\ steps[t] = <<"probe">>
        /\ outcome[t] = PyNone

\* C2: a container that is present but malformed, or a format that is not
\* supported, so that the probe fails with an error other than "not found",
\* makes the call return an error, never None.
C2_MalformedIsAnError ==
    \A t \in Threads :
        (Done(t) /\ Did(t, "probe") /\ ~ProbeResult(t).ok
            /\ ProbeResult(t).err # "JumbfNotFound")
          => outcome[t].tag = "Err"

\* C3: a container that parses but whose active-manifest pointer does not
\* resolve makes the call report an error, not the None of "no container".
C3_UnresolvedActiveIsAnError ==
    \A t \in Threads :
        (Done(t) /\ reader[t] # None /\ Unwrap(reader[t]).ok
            /\ ActiveManifest(Unwrap(Unwrap(reader[t]).val)) = None)
          => (outcome[t].tag = "Err" /\ outcome[t] # PyNone)

\* C4: with verify_trust = false no signature is verified and the result
\* carries the verdict "unverified"; with verify_trust = true a parsed
\* manifest store has its signature verified.
C4_VerifyTrustGates ==
    \A t \in Threads :
        (Done(t) /\ call[t].api = "bytes") =>
            /\ call[t].verify_trust = Some(FALSE) =>
                  /\ ~Did(t, "verify_signature")
                  /\ (outcome[t].tag = "Some" /\ Unwrap(buf[t]).json = "ok")
                        => <<"verdict", "unverified">> \in outcome[t].map
            /\ (call[t].verify_trust = Some(TRUE) /\ reader[t] # None /\ Unwrap(reader[t]).ok)
                  => Did(t, "verify_signature")

\* C5: a call ends as None, a mapping or an error; a mapping is the complete
\* projection of the active manifest, and a manifest that cannot be
\* serialized makes the call fail instead of returning a placeholder.
C5_NoPartialManifest ==
    \A t \in Threads :
        Done(t) =>
            /\ outcome[t].tag \in {"None", "Some", "Err"}
            /\ outcome[t].tag = "Some" =>
                  /\ Unwrap(buf[t]).active # None
                  /\ outcome[t].map = ManifestJson(Unwrap(Unwrap(buf[t]).active))
            /\ (reader[t] # None /\ Unwrap(reader[t]).ok
                  /\ Unwrap(buf[t]).active # None /\ Unwrap(buf[t]).json # "ok")
                  => outcome[t].tag = "Err"

\* The input file of the grayscale call, as it was when the call was made.
OriginalInput == Unwrap(disk0[gargs.input_path])

\* C6: when convert_to_gray_keep_c2pa succeeds, the container bytes handed
\* to the re-embed step are the bytes of the original input file's container
\* and the payload handed to it is the file the transform saved, whatever its
\* size; the container is extracted before the transform writes anything.
C6_ContainerPreserved ==
    /\ (gpc = "done" /\ gresult.ok) =>
          /\ handed # None /\ saved # None
          /\ Unwrap(handed).jumbf = OriginalInput.jumbf
          /\ Unwrap(handed).payload = Unwrap(saved).payload
    /\ saved # None => jumbf = Some(OriginalInput.jumbf)

C6_Witness ==
    /\ gpc = "done" /\ gresult.ok
    /\ gargs.input_path = gargs.output_path
    /\ Len(Unwrap(handed).payload) # Len(OriginalInput.payload)
    /\ Unwrap(handed).jumbf = SignedJpeg.jumbf

\* C7: after a call of convert_to_gray_keep_c2pa the output file is a
\* complete, format-valid file or the call has returned an error; a
\* successful return means the output file holds the transformed payload
\* and the original container.
C7_NoSilentCorruption ==
    gpc = "done" =>
        /\ \/ ~gresult.ok
           \/ /\ disk[gargs.output_path] # NoFile
              /\ IsValidFile(Unwrap(disk[gargs.output_path]))
        /\ gresult.ok =>
              disk[gargs.output_path] =
                  Some(GFile("present", OriginalInput.jumbf, Unwrap(saved).payload))

C7_Witness ==
    /\ gpc = "done" /\ ~gresult.ok
    /\ gargs.input_path = gargs.output_path
    /\ handed # None
    /\ disk[gargs.output_path] = Some(PartialFile)

\* The outcome a call returns when it runs alone.
Alone(c) ==
    IF c.api = "bytes" THEN ReadBytes(Unwrap(c.data), Unwrap(c.mime))
    ELSE ReadFile(c.path, c.mime)
AloneOutcome == \A t \in Threads : Done(t) => outcome[t] = Alone(call[t])

\* C8 as stated: under any interleaving of read calls each call returns the
\* outcome it returns alone, and no state shared between calls is written.
C8_NoSharedWrite ==
    /\ []AloneOutcome
    /\ [][UNCHANGED <<inited, sys_modules, mime_db, fs, verify_setting>>]_vars

\* C8, amended: under any interleaving of read calls each call returns the
\* outcome it returns alone; the mimetypes database, the file system and the
\* c2pa settings are never written; the import cache only grows; and
\* mimetypes.inited is only ever set, by a read_c2pa_from_file call
\* resolving its MIME type, which guesses only once the module is initialised.
C8_OnlyInterpreterInit ==
    /\ []AloneOutcome
    /\ [](\A t \in Threads : pc[t] = "mime_guess" => inited)
    /\ [][/\ UNCHANGED <<mime_db, fs, verify_setting>>
          /\ sys_modules \subseteq sys_modules'
          /\ inited => inited'
          /\ inited' # inited =>
                \E t \in Threads : pc[t] = "mime_init" /\ call[t].api = "file"]_vars

\* Two calls in flight at once, one parsing without the interpreter lock
\* while the other initialises mimetypes.
C8_Witness ==
    \E t, u \in Threads :
        /\ t # u
        /\ pc[t] = "parse" /\ call[t].allow_threads
        /\ pc[u] = "mime_guess" /\ inited /\ gil = u

\* The fallback table of the claim: extension -> MIME type.
C9_Table == {<<<<".","j","p","g">>, IMAGE_JPEG>>, <<<<".","j","p","e","g">>, IMAGE_JPEG>>,
             <<<<".","p","n","g">>, IMAGE_PNG>>, <<<<".","g","i","f">>, IMAGE_GIF>>,
             <<<<".","w","e","b","p">>, IMAGE_WEBP>>, <<<<".","t","i","f","f">>, IMAGE_TIFF>>,
             <<<<".","h","e","i","c">>, IMAGE_HEIC>>}
\* The MIME type the claim says a read_c2pa_from_file call resolves.
C9_Resolved(c) ==
    IF c.mime # None /\ Trim(Unwrap(c.mime)) # <<>> THEN c.mime
    ELSE IF GuessType(mime_db, c.path) # None THEN GuessType(mime_db, c.path)
    ELSE DbLookup(C9_Table, ToLower(SplitExt(c.path)))

\* C9: read_c2pa_from_file uses a non-blank mime_type unchanged, else the
\* mimetypes guess, else the case-insensitive fallback table; with no MIME
\* type it raises without reading the file; a file that cannot be read is an
\* error; otherwise it returns what read_c2pa_from_bytes returns for the
\* file's contents and the resolved MIME type.
C9_FileResolution ==
    \A t \in Threads :
        /\ (call[t].api = "file" /\ Did(t, "fs_read")) => eff_mime[t] = C9_Resolved(call[t])
        /\ (call[t].api = "file" /\ Done(t)) =>
              IF C9_Resolved(call[t]) = None
              THEN outcome[t].tag = "Err" /\ ~Did(t, "fs_read")
              ELSE IF fs[call[t].path] = NoFile
              THEN outcome[t].tag = "Err" /\ ~Did(t, "probe")
              ELSE outcome[t] = ReadBytes(Unwrap(fs[call[t].path]),
                                          Unwrap(C9_Resolved(call[t])))

C9_Witness ==
    \E t \in Threads :
        /\ Done(t) /\ call[t].api = "file"
        /\ call[t].path = P_JPG /\ call[t].mime = Some(<<" ">>)
        /\ mime_db = EmptyDb
        /\ eff_mime[t] = Some(IMAGE_JPEG)
        /\ outcome[t] = PySome(ManifestJson("m1"))

\* C10: when the input file cannot be opened or no container can be
\* extracted from it, the call returns an error and leaves every file,
\* output_path included, as it was: nothing is written before a container
\* has been extracted.
C10_FailedExtractLeavesOutput ==
    /\ (gpc = "done" /\ (disk0[gargs.input_path] = NoFile
                            \/ ~LoadJumbf(gargs.format, OriginalInput).ok))
          => (~gresult.ok /\ disk[gargs.output_path] = disk0[gargs.output_path])
    /\ (gpc # "idle" /\ jumbf = None) => disk = disk0

C10_Witness ==
    /\ gpc = "done" /\ ~gresult.ok
    /\ gresult.err = "Failed to load JUMBF"
    /\ disk0[gargs.input_path] = Some(AsFile(PlainJpeg))
    /\ gargs.output_path # gargs.input_path
    /\ disk[gargs.output_path] = Some(OldOutput)

====
